---- MODULE Spec2Model ----
(***************************************************************************)
(* LCCN Wikidata bot (src/src/script.py): the page loop of one run, the    *)
(* ids ledger, the per-record decision on the P244 claims of an entity,    *)
(* the post-write check, the report and the final prune.                   *)
(*                                                                         *)
(* Strings are sequences of one-character strings, so that lower(),        *)
(* strip() and the '-' join of the ledger key are computed, not assumed.   *)
(* A fixed message of the code is a one-element sequence holding it.       *)
(***************************************************************************)
EXTENDS Integers, Sequences, FiniteSets, TLC

\* ------------------------------------------------------------------ bounds
\* runs of the script that a behaviour holds
MaxRuns == 2
\* feed pages visited by one run (the script visits range(1,50))
LastPage == 2
\* orderedItems of one feed page
MaxPageLen == 2
\* feed items delivered over all pages and runs of a behaviour
MaxFeedItems == 2

\* 30 days in seconds, script.py prune
RetentionSeconds == 2592000

\* ----------------------------------------------------------------- strings
RECURSIVE LowerStr(_)
RECURSIVE LStrip(_)
RECURSIVE RStrip(_)

\* str.lower() on one character of the alphabet in use
LowerChar(ch) ==
    CASE ch = "N" -> "n"
      [] ch = "A" -> "a"
      [] ch = "B" -> "b"
      [] ch = "C" -> "c"
      [] OTHER -> ch

LowerStr(s) ==
    IF s = <<>> THEN <<>> ELSE <<LowerChar(Head(s))>> \o LowerStr(Tail(s))

LStrip(s) ==
    IF s # <<>> /\ Head(s) = " " THEN LStrip(Tail(s)) ELSE s

RStrip(s) ==
    IF s # <<>> /\ s[Len(s)] = " " THEN RStrip(SubSeq(s, 1, Len(s) - 1)) ELSE s

\* str.strip()
Strip(s) == RStrip(LStrip(s))

\* the elements of a sequence
Range(s) == {s[i] : i \in 1..Len(s)}

\* the empty string
Empty == <<>>

\* ------------------------------------------------------------ the feed
n1 == <<"n", "1">>
N1 == <<"N", "1">>
n2 == <<"n", "2">>
d1 == <<"d", "1">>
d2 == <<"d", "2">>

\* rec['object']['id'].split("/")[-1], rec['published'], rec['object']['update']
Items ==
    { [lccn |-> n1, published |-> d1, update |-> d1],
      [lccn |-> n2, published |-> d1, update |-> d2] }

\* db_id = f"{lccn}-{date_pub}-{date_update}"
DbId(rec) == rec.lccn \o <<"-">> \o rec.published \o <<"-">> \o rec.update

\* the orderedItems a feed page may hold
RECURSIVE SeqsUpTo(_, _)
SeqsUpTo(S, n) ==
    IF n = 0 THEN {<<>>}
    ELSE LET shorter == SeqsUpTo(S, n - 1)
         IN  shorter \cup {Append(s, x) : s \in {t \in shorter : Len(t) = n - 1}, x \in S}

FeedPages == SeqsUpTo(Items, MaxPageLen)

\* ------------------------------------------------------------ MARC records
NoId == "False"
QIDs == {"Q1", "Q2"}

\* a field: its tag, whether it has a subfield u, the QIDs of the wikidata.org
\* URLs in its text (in order) and the numbers after "viaf/" in its text
Fld(tag, u, wd, viaf) == [tag |-> tag, u |-> u, wd |-> wd, viaf |-> viaf]

MarcRecords ==
    { <<Fld("100", FALSE, <<>>, <<>>)>>,
      <<Fld("024", FALSE, <<"Q1">>, <<>>)>>,
      <<Fld("024", FALSE, <<>>, <<"v1">>)>>,
      <<Fld("024", FALSE, <<"Q1">>, <<>>), Fld("670", TRUE, <<"Q2">>, <<>>)>> }

\* re.findall(r'wikidata\.org/.*/Q[0-9]+', str(field)): .* is greedy, so the one
\* match runs from the first URL to the last QID of the field's line
FindallWikidata(field) ==
    IF field.wd = <<>> THEN <<>> ELSE <<field.wd[Len(field.wd)]>>

extract_wikidata(field) ==
    LET reg_results == FindallWikidata(field)
    IN  IF Len(reg_results) = 1 THEN reg_results[1] ELSE NoId

\* re.findall(r'viaf/[0-9]+', str(field)): one match per number
extract_viaf(field) ==
    LET reg_results == field.viaf
    IN  IF Len(reg_results) = 1 THEN reg_results[1] ELSE NoId

\* 'wikidata.org' in str(field), 'viaf.org' in str(field)
MentionsWikidata(field) == field.wd # <<>>
MentionsViaf(field) == field.viaf # <<>>

\* for field in record.get_fields(): the last identifier-bearing field wins
RECURSIVE ScanFields(_, _, _)
ScanFields(fields, wiki_id, viaf_id) ==
    IF fields = <<>> THEN [wiki_id |-> wiki_id, viaf_id |-> viaf_id]
    ELSE LET field == Head(fields)
             w == IF MentionsWikidata(field)
                     /\ (field.tag = "024" \/ (field.tag = "670" /\ field.u))
                  THEN extract_wikidata(field) ELSE wiki_id
             v == IF MentionsViaf(field) /\ field.tag = "024"
                  THEN extract_viaf(field) ELSE viaf_id
         IN  ScanFields(Tail(fields), w, v)

\* ------------------------------------------------------------ Wikidata
\* a P244 claim: c.mainsnak.datavalue['value'] and c.qualifiers.get('P1810')
Claim(value, named) == [value |-> value, P1810 |-> named]

LabelA == <<"A">>
LabelB == <<"B">>
LabelC == <<"C">>

\* X-PrefLabel-Encoded of a record
PrefLabels == {LabelA}

\* the P244 claim lists an entity may start with
ClaimShapes ==
    { <<>>,
      <<Claim(n1, <<>>)>>,
      <<Claim(N1, <<LabelA>>)>>,
      <<Claim(n1, <<LabelB, LabelA>>)>>,
      <<Claim(n1, <<LabelB, LabelC>>)>>,
      <<Claim(n1, <<>>), Claim(N1, <<>>)>>,
      <<Claim(n2, <<LabelA>>), Claim(n1, <<LabelB>>)>> }

OtherShapes == { <<>> }

\* viaf.org justlinks.json: the WKP list and whether an LC key is present;
\* NoLinks is the {} left by a failed request
NoLinks == [WKP |-> <<>>, LC |-> FALSE]
ViafLinks ==
    { NoLinks,
      [WKP |-> <<"Q1">>, LC |-> TRUE],
      [WKP |-> <<"Q2">>, LC |-> FALSE] }

\* ------------------------------------------------------------ log events
Event(lccn, qid, action, old, new) ==
    [lccn |-> lccn, qid |-> qid, action |-> action, old |-> old, new |-> new]

MsgChangeError == <<"Error changing named_as.">>
MsgAddError == <<"Error adding named_as.">>
MsgMismatch == <<"LCCN already exist but not the one we are trying to add.">>
MsgP244Error == <<"Script Error when adding P244.">>
MsgMulti == <<"LCCN Used in multiple Qids">>

\* ------------------------------------------------------------ the ledger
Row(key, lccn, timestamp) == [key |-> key, lccn |-> lccn, timestamp |-> timestamp]

\* some row of the table has this key
HasRow(rows, key) == \E i \in 1..Len(rows) : rows[i].key = key

\* SELECT * FROM ids WHERE key = '{db_id}'
SelectKey(rows, db_id) == SelectSeq(rows, LAMBDA r : r.key = db_id)

\* the seen-check querying the lccn column instead of the key column
NotSeenWrongColumn(rows, db_id) ==
    Len(SelectSeq(rows, LAMBDA r : r.lccn = db_id)) = 0

\* len(result) == 0 is the test that puts a record in to_check
NotSeen(rows, db_id) == Len(SelectKey(rows, db_id)) = 0

\* ------------------------------------------------------------ the decision
\* the first q of c.qualifiers.get('P1810') with q.strip() != l['pref'], 0 if none
RECURSIVE FirstDifferingFrom(_, _, _)
FirstDifferingFrom(named, pref, j) ==
    IF j > Len(named) THEN 0
    ELSE IF Strip(named[j]) # pref THEN j
    ELSE FirstDifferingFrom(named, pref, j + 1)

\* the qualifier loop without its break: the last differing entry is the one changed
RECURSIVE LastDifferingFrom(_, _, _)
LastDifferingFrom(named, pref, j) ==
    IF j < 1 THEN 0
    ELSE IF Strip(named[j]) # pref THEN j
    ELSE LastDifferingFrom(named, pref, j - 1)

LastDiffering(named, pref) == LastDifferingFrom(named, pref, Len(named))

FirstDiffering(named, pref) == FirstDifferingFrom(named, pref, 1)

\* the comparison without the two lower() calls
SameLccnExact(c, lccn) == c.value = lccn

\* c.mainsnak.datavalue['value'].lower() == l['lccn'].lower()
SameLccn(c, lccn) == LowerStr(c.value) = LowerStr(lccn)

\* what one pass of the loop body did: the claim looked at, the branch taken, the
\* item before and after, the write and the events it logged
StepRec(ci, kind, before, after, wrote, ok, events, inserts) ==
    [ci |-> ci, kind |-> kind, before |-> before, after |-> after,
     wrote |-> wrote, ok |-> ok, events |-> events, inserts |-> inserts]

\* the outcome of processing one record: the local wiki_item, the entity on
\* Wikidata, the events appended to log_writes, the ledger rows inserted
Outcome(item, remote, events, inserts, steps, broke) ==
    [item |-> item, remote |-> remote, events |-> events, inserts |-> inserts,
     steps |-> steps, broke |-> broke]

\* the P1810-present branch where a rejected write is not logged
NamedAsPresentSilent(item, i, l, wiki_id, pref, ok) ==
    LET c == item[i]
        j == FirstDiffering(c.P1810, pref)
        after == IF j = 0 THEN item
                 ELSE [item EXCEPT ![i].P1810[j] = pref]
        events == IF j # 0 /\ ok
                  THEN <<Event(l.lccn, <<wiki_id>>, "NAMED_AS_CHANGE", c.P1810[j], pref)>>
                  ELSE <<>>
    IN  StepRec(i, IF j = 0 THEN "keep" ELSE "change", item, after, j # 0, j # 0 /\ ok,
                events, 1)

\* the P1810-present branch for claim i: change the first differing qualifier,
\* write, log, break; then the ledger insert
NamedAsPresent(item, i, l, wiki_id, pref, ok) ==
    LET c == item[i]
        j == FirstDiffering(c.P1810, pref)
        after == IF j = 0 THEN item
                 ELSE [item EXCEPT ![i].P1810[j] = pref]
        events == IF j = 0 THEN <<>>
                  ELSE IF ok
                  THEN <<Event(l.lccn, <<wiki_id>>, "NAMED_AS_CHANGE", c.P1810[j], pref)>>
                  ELSE <<Event(l.lccn, <<wiki_id>>, "NEED_REVIEW", Empty, MsgChangeError)>>
    IN  StepRec(i, IF j = 0 THEN "keep" ELSE "change", item, after, j # 0, j # 0 /\ ok,
                events, 1)

\* the P1810-absent branch logging NAMED_AS_ADDED before the write is tried
NamedAsAbsentLogFirst(item, i, l, wiki_id, pref, ok) ==
    LET after == [item EXCEPT ![i].P1810 = <<pref>>]
        added == Event(l.lccn, <<wiki_id>>, "NAMED_AS_ADDED", Empty, pref)
        events == IF ok THEN <<added>>
                  ELSE <<added, Event(l.lccn, <<wiki_id>>, "NEED_REVIEW", Empty, MsgAddError)>>
    IN  StepRec(i, "add", item, after, TRUE, ok, events, 1)

\* the P1810-absent branch for claim i: add the qualifier, write, log, insert
NamedAsAbsent(item, i, l, wiki_id, pref, ok) ==
    LET after == [item EXCEPT ![i].P1810 = <<pref>>]
        events == IF ok
                  THEN <<Event(l.lccn, <<wiki_id>>, "NAMED_AS_ADDED", Empty, pref)>>
                  ELSE <<Event(l.lccn, <<wiki_id>>, "NEED_REVIEW", Empty, MsgAddError)>>
    IN  StepRec(i, "add", item, after, TRUE, ok, events, 1)

\* the body of "for c in p244" for claim i
ClaimStep(item, i, l, wiki_id, pref, ok) ==
    IF SameLccn(item[i], l.lccn)
    THEN IF Len(item[i].P1810) > 0
         THEN NamedAsPresent(item, i, l, wiki_id, pref, ok)
         ELSE NamedAsAbsent(item, i, l, wiki_id, pref, ok)
    ELSE StepRec(i, "other", item, item, FALSE, FALSE, <<>>, 0)

\* "for c in p244" from claim i on; a write that is accepted stores the whole
\* local item on Wikidata
RECURSIVE ClaimLoopFrom(_, _, _, _, _, _, _)
ClaimLoopFrom(i, acc, has_lccn, l, wiki_id, pref, oks) ==
    IF i > Len(acc.item)
    THEN IF has_lccn = FALSE
         THEN Outcome(acc.item, acc.remote,
                      Append(acc.events,
                             Event(l.lccn, <<wiki_id>>, "NEED_REVIEW", Empty, MsgMismatch)),
                      acc.inserts + 1, acc.steps, FALSE)
         ELSE acc
    ELSE LET st == ClaimStep(acc.item, i, l, wiki_id, pref, oks[i])
         IN  ClaimLoopFrom(i + 1,
                 Outcome(st.after,
                         IF st.ok THEN st.after ELSE acc.remote,
                         acc.events \o st.events,
                         acc.inserts + st.inserts,
                         Append(acc.steps, st),
                         FALSE),
                 has_lccn \/ SameLccn(acc.item[i], l.lccn),
                 l, wiki_id, pref, oks)

\* the len(p244) > 0 branch
ClaimLoop(p244, l, wiki_id, pref, oks) ==
    ClaimLoopFrom(1, Outcome(p244, p244, <<>>, 0, <<>>, FALSE), FALSE,
                  l, wiki_id, pref, oks)

\* the else branch: add the P244 claim with its P1810 qualifier, write, log,
\* break; the statements after the break are never run
AddP244(p244, l, wiki_id, pref, ok) ==
    LET after == Append(p244, Claim(l.lccn, <<pref>>))
        events == IF ok
                  THEN <<Event(l.lccn, <<wiki_id>>, "ADD_P244", Empty, Empty)>>
                  ELSE <<Event(l.lccn, <<wiki_id>>, "NEED_REVIEW", Empty, MsgP244Error)>>
    IN  Outcome(after, IF ok THEN after ELSE p244, events, 0,
                <<StepRec(0, "addclaim", p244, after, TRUE, ok, events, 0)>>, TRUE)

\* the decision taking the add branch whenever no claim matches the LCCN
DecideAddWhenNoMatch(p244, l, wiki_id, pref, oks) ==
    IF \E i \in 1..Len(p244) : SameLccn(p244[i], l.lccn)
    THEN ClaimLoop(p244, l, wiki_id, pref, oks)
    ELSE AddP244(p244, l, wiki_id, pref, oks[1])

\* the decision on a fetched entity with one extracted Wikidata ID
Decide(p244, l, wiki_id, pref, oks) ==
    IF Len(p244) > 0
    THEN ClaimLoop(p244, l, wiki_id, pref, oks)
    ELSE AddP244(p244, l, wiki_id, pref, oks[1])

\* ------------------------------------------------------------ the report
available_actions ==
    <<"MULTI_LCCN_IN_WIKI", "NEED_REVIEW", "VIAF_SUGGESTION", "ADD_P244",
      "NAMED_AS_CHANGE", "NAMED_AS_ADDED">>

\* a Counter that only notes whether the action occurred
CountActionOnce(events, action) ==
    IF \E i \in 1..Len(events) : events[i].action = action THEN 1 ELSE 0

\* c[action]: Counter over the events, 0 for an action that never occurred
CountAction(events, action) == Len(SelectSeq(events, LAMBDA e : e.action = action))

\* the logDetail elements: for each action in turn, the events of that action
RECURSIVE LogDetails(_, _)
LogDetails(events, k) ==
    IF k > Len(available_actions) THEN <<>>
    ELSE SelectSeq(events, LAMBDA e : e.action = available_actions[k])
         \o LogDetails(events, k + 1)

build_report(events) ==
    [msg |-> [a \in Range(available_actions) |-> CountAction(events, a)],
     logDetails |-> LogDetails(events, 1)]

NoReport == [msg |-> [a \in Range(available_actions) |-> 0], logDetails |-> <<>>]

\* ------------------------------------------------------------ post-write check
\* SELECT * WHERE { ?item wdt:P244 "{lccn}" }: the entities carrying the LCCN
QidOrder == <<"Q1", "Q2">>

Sparql(wd, lccn) ==
    SelectSeq(QidOrder, LAMBDA q : \E i \in 1..Len(wd[q]) : wd[q][i].value = lccn)

RECURSIVE PostWriteCheck(_, _)
PostWriteCheck(wd, lccns) ==
    IF lccns = <<>> THEN <<>>
    ELSE LET multi_qid == Sparql(wd, Head(lccns))
         IN  (IF Len(multi_qid) > 1
              THEN <<Event(Head(lccns), multi_qid, "MULTI_LCCN_IN_WIKI", Empty, MsgMulti)>>
              ELSE <<>>)
             \o PostWriteCheck(wd, Tail(lccns))

\* ------------------------------------------------------------ prune
one_month_ago(t) == t - RetentionSeconds

\* the DELETE with <= in place of <
PrunedInclusive(rows, t) == SelectSeq(rows, LAMBDA r : ~(r.timestamp <= one_month_ago(t)))

\* DELETE FROM ids WHERE timestamp < one_month_ago
Pruned(rows, t) == SelectSeq(rows, LAMBDA r : ~(r.timestamp < one_month_ago(t)))

\* ------------------------------------------------------------ the state
VARIABLES
    pc,                 \* where the script stands: idle, page, records, prune
    run,                \* runs started so far
    now,                \* int(time.time())
    use_page_number,    \* the page loop's counter
    to_check,           \* the records of the page that have no ledger row
    idx,                \* position of "for l in to_check"
    ids,                \* the rows of table ids (ids.sqlite3)
    wikidata,           \* the P244 claims of each entity on Wikidata
    log_writes,         \* the run's events
    lccns_to_check_wikidata_count,
    report,             \* the report the running script has written
    last,               \* history: what the latest pass of the page's record loop did
    okWrites,           \* history: accepted writes per ledger key
    skipped,            \* history: keys of the current page that had a ledger row at its scan
    scan_ids,           \* history: the ledger as the current page's scan saw it
    placed,             \* history: the records put in to_check during the run
    delivered,          \* history: feed items delivered so far
    deleted,            \* the count prune printed ("Deleting n old records.")
    viaf_req,           \* whether the name viaf_req is bound in this run
    ended,              \* how the latest run ended, "running" while it runs
    scanned,            \* history: the MARC record and VIAF answers of the latest pass
    llm_pc,             \* lib/llm.py: idle, called (auto_route_prompt entered), returned
    qids,               \* lib/llm.py: first argument of auto_route_prompt
    lccns,              \* lib/llm.py: second argument of auto_route_prompt
    wiki_data,          \* lib/llm.py: what return_wikidata answers for the QID
    lc_data,            \* lib/llm.py: the text build_lc_data answers for each LCCN
    sent,               \* lib/llm.py: the calls of send_prompt, in order
    response,           \* lib/llm.py: what the model call of send_prompt did
    result,             \* lib/llm.py: what auto_route_prompt returned
    recs,               \* two feed items handed to the key construction
    db_ids,             \* the db_id built for each of the two
    xref_pc,            \* lib/parse_reports.py: idle, called, returned
    violations,         \* lib/parse_reports.py: what parse_wikidata_violations returned
    lccn_reports,       \* lib/parse_reports.py: what fetch_lccn_bot_reports returned
    summary             \* lib/parse_reports.py: what the cross-reference returned

\* the matcher of lib/llm.py is not called by script.py
llm_vars == <<llm_pc, qids, lccns, wiki_data, lc_data, sent, response, result>>

\* the variables of script.py
script_vars == <<pc, run, now, use_page_number, to_check, idx, ids, wikidata, log_writes,
                 lccns_to_check_wikidata_count, report, last, okWrites, skipped, scan_ids,
                 placed, delivered, deleted, viaf_req, ended, scanned>>

\* the key construction of lines 224-231, taken on its own
key_vars == <<recs, db_ids>>

\* cross_reference_violations_with_reports of lib/parse_reports.py
xref_vars == <<xref_pc, violations, lccn_reports, summary>>

\* what script.py leaves alone
lib_vars == <<llm_vars, key_vars, xref_vars>>

vars == <<script_vars, lib_vars>>

Keys == {DbId(rec) : rec \in Items}

ToCheck(rec) == [lccn |-> rec.lccn, db_id |-> DbId(rec)]

NoOutcome == Outcome(<<>>, <<>>, <<>>, 0, <<>>, FALSE)

LastRec(stage, l, wiki_id, pref, p244, out) ==
    [stage |-> stage, db_id |-> l.db_id, lccn |-> l.lccn, wiki_id |-> wiki_id,
     pref |-> pref, p244 |-> p244, out |-> out]

NoLast == LastRec("none", [lccn |-> Empty, db_id |-> Empty], NoId, Empty, <<>>, NoOutcome)

NoScan == [record |-> <<>>, viaf_id |-> NoId, viaf_links |-> NoLinks, got |-> FALSE]

\* lib/llm.py is not in use
LlmIdle ==
    /\ llm_pc = "idle"
    /\ qids = <<>>
    /\ lccns = <<>>
    /\ wiki_data = <<>>
    /\ lc_data = <<>>
    /\ sent = <<>>
    /\ response = <<>>
    /\ result = <<>>

\* no item is under the key construction on its own
KeyIdle ==
    /\ recs = <<>>
    /\ db_ids = <<>>

\* lib/parse_reports.py is not in use
XrefIdle ==
    /\ xref_pc = "idle"
    /\ violations = <<>>
    /\ lccn_reports = <<>>
    /\ summary = <<>>

Init ==
    /\ pc = "idle"
    /\ run = 0
    /\ now = 0
    /\ use_page_number = 0
    /\ to_check = <<>>
    /\ idx = 1
    /\ ids = <<>>
    /\ wikidata \in {[q \in QIDs |-> IF q = "Q1" THEN a ELSE b] :
                        a \in ClaimShapes, b \in OtherShapes}
    /\ log_writes = <<>>
    /\ lccns_to_check_wikidata_count = <<>>
    /\ report = NoReport
    /\ last = NoLast
    /\ okWrites = [k \in Keys |-> 0]
    /\ skipped = {}
    /\ scan_ids = <<>>
    /\ placed = {}
    /\ delivered = 0
    /\ deleted = 0
    /\ viaf_req = FALSE
    /\ ended = "none"
    /\ scanned = NoScan
    /\ LlmIdle
    /\ KeyIdle
    /\ XrefIdle

\* ------------------------------------------------------------ a run
\* what the latest pass read: the MARC record, the VIAF ID, the VIAF links and
\* whether wbi.item.get of the VIAF entity returned
Scanned(record, viaf_id, viaf_links, got) ==
    [record |-> record, viaf_id |-> viaf_id, viaf_links |-> viaf_links, got |-> got]

\* a new process: nothing of the previous one's memory or output is left
Fresh ==
    /\ to_check' = <<>>
    /\ idx' = 1
    /\ log_writes' = <<>>
    /\ lccns_to_check_wikidata_count' = <<>>
    /\ viaf_req' = FALSE
    /\ deleted' = 0
    /\ report' = NoReport
    /\ last' = NoLast
    /\ scanned' = NoScan
    /\ skipped' = {}
    /\ scan_ids' = <<>>
    /\ placed' = {}
    /\ UNCHANGED lib_vars

\* creds.json cannot be loaded, or wbi_login.OAuth2 raises: os._exit(0) before
\* connect_to_database() and before the page loop
ConfigFail ==
    /\ pc = "idle"
    /\ run < MaxRuns
    /\ run' = run + 1
    /\ ended' = "config"
    /\ Fresh
    /\ UNCHANGED <<pc, now, use_page_number, ids, wikidata, okWrites, delivered>>

\* the script starts: log_writes = [], the page loop begins at page 1
StartRun ==
    /\ pc = "idle"
    /\ run < MaxRuns
    /\ run' = run + 1
    \* the time since the previous run matters only to the rows the ledger holds
    /\ \E d \in (IF ids = <<>> THEN {1} ELSE {RetentionSeconds, RetentionSeconds + 1}) :
          now' = now + d
    /\ use_page_number' = 1
    /\ Fresh
    /\ ended' = "running"
    /\ pc' = "page"
    /\ UNCHANGED <<ids, wikidata, okWrites, delivered>>

\* the records of a page that go to to_check: those with no ledger row
RECURSIVE BuildToCheck(_, _)
BuildToCheck(orderedItems, rows) ==
    IF orderedItems = <<>> THEN <<>>
    ELSE (IF NotSeen(rows, DbId(Head(orderedItems)))
          THEN <<ToCheck(Head(orderedItems))>> ELSE <<>>)
         \o BuildToCheck(Tail(orderedItems), rows)

\* the feed page is fetched (at the first or the second attempt) and scanned
FetchPage ==
    /\ pc = "page"
    /\ \E data \in FeedPages :
          /\ delivered + Len(data) <= MaxFeedItems
          /\ delivered' = delivered + Len(data)
          /\ to_check' = BuildToCheck(data, ids)
          /\ skipped' = {DbId(data[i]) : i \in {j \in 1..Len(data) : HasRow(ids, DbId(data[j]))}}
          /\ placed' = placed \cup Range(to_check')
    /\ scan_ids' = ids
    /\ idx' = 1
    /\ lccns_to_check_wikidata_count' = <<>>
    /\ last' = NoLast
    /\ scanned' = NoScan
    /\ pc' = "records"
    /\ UNCHANGED <<run, now, use_page_number, ids, wikidata, log_writes, report, okWrites,
                   deleted, viaf_req, ended, lib_vars>>

\* the process ends, by an uncaught exception or after prune: its memory is gone
\* and its report is not written again
Exit(how) ==
    /\ pc' = "idle"
    /\ ended' = how
    /\ use_page_number' = 0
    /\ to_check' = <<>>
    /\ idx' = 1
    /\ log_writes' = <<>>
    /\ lccns_to_check_wikidata_count' = <<>>
    /\ viaf_req' = FALSE
    /\ skipped' = {}
    /\ scan_ids' = <<>>
    /\ placed' = {}
    /\ report' = NoReport
    /\ UNCHANGED <<run, now, delivered, lib_vars>>

\* the second json.loads of the feed page raises: the script ends there
FeedCrash ==
    /\ pc = "page"
    /\ Exit("feed")
    /\ UNCHANGED <<ids, wikidata, okWrites, deleted, last, scanned>>

\* db_crsr.execute of the seen-check SELECT raises during the scan of a page that
\* has at least one item: no handler, the script ends there
SelectCrash ==
    /\ pc = "page"
    /\ {data \in FeedPages : Len(data) > 0} # {}
    /\ Exit("select")
    /\ UNCHANGED <<ids, wikidata, okWrites, deleted, last, scanned>>

\* the ids rows inserted for record l
Inserted(l, n, t) == [i \in 1..n |-> Row(l.db_id, l.lccn, t)]

\* accepted writes among the steps of an outcome
OkCount(out) == Len(SelectSeq(out.steps, LAMBDA st : st.ok))

\* one pass of "for l in to_check" that ends at a continue before the decision:
\* the MARC download fails, the MARC parse fails, the label request fails or
\* both attempts to get the entity fail
Skip(stage, sc) ==
    /\ idx' = idx + 1
    /\ last' = LastRec(stage, to_check[idx], NoId, Empty, <<>>, NoOutcome)
    /\ scanned' = sc
    /\ UNCHANGED <<pc, run, now, use_page_number, to_check, ids, wikidata, log_writes,
                   lccns_to_check_wikidata_count, report, okWrites, skipped, scan_ids,
                   placed, delivered, deleted, viaf_req, ended, lib_vars>>

\* the records whose scan yields a Wikidata ID
WithWikidata == {record \in MarcRecords : ScanFields(record, NoId, NoId).wiki_id # NoId}

RecFetchFail ==
    /\ pc = "records" /\ idx <= Len(to_check)
    /\ Skip("fetch_fail", NoScan)

RecParseFail ==
    /\ pc = "records" /\ idx <= Len(to_check)
    /\ Skip("parse_fail", NoScan)

RecPrefFail ==
    /\ pc = "records" /\ idx <= Len(to_check)
    /\ WithWikidata # {}
    /\ Skip("pref_fail", NoScan)

RecGetFail ==
    /\ pc = "records" /\ idx <= Len(to_check)
    /\ WithWikidata # {}
    /\ Skip("get_fail", NoScan)

\* the no-wikidata branch suggesting without looking at the entity's P244 claims
ViafEventsAnyEntity(l, viaf_id, viaf_links, got, wd) ==
    IF viaf_id # NoId /\ viaf_links.WKP # <<>> /\ viaf_links.LC /\ got
    THEN <<Event(l.lccn, viaf_links.WKP, "VIAF_SUGGESTION", <<viaf_id>>, Empty)>>
    ELSE <<>>

\* the events of the no-wikidata branch: a VIAF suggestion when the VIAF links
\* name a Wikidata entity and an LC record, and that entity has no P244 claim
ViafEvents(l, viaf_id, viaf_links, got, wd) ==
    IF viaf_id # NoId /\ viaf_links.WKP # <<>> /\ viaf_links.LC /\ got
       /\ Len(wd[viaf_links.WKP[1]]) = 0
    THEN <<Event(l.lccn, viaf_links.WKP, "VIAF_SUGGESTION", <<viaf_id>>, Empty)>>
    ELSE <<>>

\* the answers the VIAF request can leave in viaf_links: none asked without a VIAF
\* ID; {} when requests.get raises (viaf_req must then be bound already for the
\* except block to print it) or when json() raises
LinksFor(viaf_id) == IF viaf_id = NoId THEN {NoLinks} ELSE ViafLinks

\* wbi.item.get(entity_id=viaf_qid) is reached only with WKP and LC in the links
GotFor(viaf_id, viaf_links) ==
    IF viaf_id # NoId /\ viaf_links.WKP # <<>> /\ viaf_links.LC THEN BOOLEAN ELSE {FALSE}

\* wiki_id == False: the ledger insert, then the VIAF lookup
RecNoWiki ==
    /\ pc = "records" /\ idx <= Len(to_check)
    /\ \E record \in MarcRecords :
          LET l == to_check[idx]
              found == ScanFields(record, NoId, NoId)
          IN  /\ found.wiki_id = NoId
              /\ \E viaf_links \in LinksFor(found.viaf_id) :
                 \E got \in GotFor(found.viaf_id, viaf_links) :
                    LET events == ViafEvents(l, found.viaf_id, viaf_links, got, wikidata)
                    IN  /\ ids' = Append(ids, Row(l.db_id, l.lccn, now))
                        /\ log_writes' = log_writes \o events
                        /\ last' = LastRec("no_wiki", l, NoId, Empty, <<>>,
                                           Outcome(<<>>, <<>>, events, 1, <<>>, FALSE))
                        /\ scanned' = Scanned(record, found.viaf_id, viaf_links, got)
                        \* a request that returned binds viaf_req; a {} answer with
                        \* viaf_req unbound can only be a failed json()
                        /\ viaf_req' = (viaf_req \/ found.viaf_id # NoId)
    /\ idx' = idx + 1
    /\ UNCHANGED <<pc, run, now, use_page_number, to_check, wikidata,
                   lccns_to_check_wikidata_count, report, okWrites, skipped, scan_ids,
                   placed, delivered, deleted, ended, lib_vars>>

\* wiki_id == False with a VIAF ID, requests.get raises and no earlier request of
\* the run has bound viaf_req: the except block's print(viaf_req.text) raises
\* NameError after the ledger insert, and the script ends there
RecViafCrash ==
    /\ pc = "records" /\ idx <= Len(to_check)
    /\ ~viaf_req
    /\ \E record \in MarcRecords :
          LET l == to_check[idx]
              found == ScanFields(record, NoId, NoId)
          IN  /\ found.wiki_id = NoId
              /\ found.viaf_id # NoId
              /\ ids' = Append(ids, Row(l.db_id, l.lccn, now))
              /\ last' = LastRec("viaf_crash", l, NoId, Empty, <<>>,
                                 Outcome(<<>>, <<>>, <<>>, 1, <<>>, FALSE))
              /\ scanned' = Scanned(record, found.viaf_id, NoLinks, FALSE)
    /\ Exit("viaf")
    /\ UNCHANGED <<wikidata, okWrites, deleted>>

\* wiki_id == False and the INSERT of lines 308-312 raises: no handler
RecNoWikiInsertCrash ==
    /\ pc = "records" /\ idx <= Len(to_check)
    /\ \E record \in MarcRecords :
          LET l == to_check[idx]
              found == ScanFields(record, NoId, NoId)
          IN  /\ found.wiki_id = NoId
              /\ last' = LastRec("insert_fail", l, NoId, Empty, <<>>, NoOutcome)
              /\ scanned' = Scanned(record, found.viaf_id, NoLinks, FALSE)
    /\ Exit("insert")
    /\ UNCHANGED <<ids, wikidata, okWrites, deleted>>

\* wiki_item.write for claim i of the list is accepted (TRUE) or raises (FALSE);
\* a claim that is not the record's LCCN has no write to be answered
WriteResults(p244, lccn) ==
    {oks \in [1..(IF Len(p244) = 0 THEN 1 ELSE Len(p244)) -> BOOLEAN] :
        \A i \in 1..Len(p244) : ~SameLccn(p244[i], lccn) => oks[i]}

\* one Wikidata ID, the label and the entity were fetched: the decision
RecDecide ==
    /\ pc = "records" /\ idx <= Len(to_check)
    /\ \E record \in MarcRecords, pref \in PrefLabels :
          LET l == to_check[idx]
              found == ScanFields(record, NoId, NoId)
              wiki_id == found.wiki_id
          IN  /\ wiki_id # NoId
              /\ scanned' = Scanned(record, found.viaf_id, NoLinks, FALSE)
              /\ \E oks \in WriteResults(wikidata[wiki_id], l.lccn) :
                 LET p244 == wikidata[wiki_id]
                     out == Decide(p244, l, wiki_id, pref, oks)
                 IN  /\ wikidata' = [wikidata EXCEPT ![wiki_id] = out.remote]
                     /\ log_writes' = log_writes \o out.events
                     /\ ids' = ids \o Inserted(l, out.inserts, now)
                     /\ idx' = IF out.broke THEN Len(to_check) + 1 ELSE idx + 1
                     /\ okWrites' = [okWrites EXCEPT ![l.db_id] = @ + OkCount(out)]
                     /\ last' = LastRec("decided", l, wiki_id, pref, p244, out)
    /\ UNCHANGED <<pc, run, now, use_page_number, to_check,
                   lccns_to_check_wikidata_count, report, skipped, scan_ids, placed,
                   delivered, deleted, viaf_req, ended, lib_vars>>

\* "for c in p244" from claim i on, up to the first INSERT of the pass, which
\* raises: what was written and logged before it stands, no row is inserted
RECURSIVE ClaimLoopToInsert(_, _, _, _, _, _)
ClaimLoopToInsert(i, acc, l, wiki_id, pref, oks) ==
    IF i > Len(acc.item)
    THEN Outcome(acc.item, acc.remote,
                 Append(acc.events,
                        Event(l.lccn, <<wiki_id>>, "NEED_REVIEW", Empty, MsgMismatch)),
                 0, acc.steps, TRUE)
    ELSE LET st == ClaimStep(acc.item, i, l, wiki_id, pref, oks[i])
             nxt == Outcome(st.after,
                            IF st.ok THEN st.after ELSE acc.remote,
                            acc.events \o st.events,
                            0,
                            Append(acc.steps, [st EXCEPT !.inserts = 0]),
                            TRUE)
         IN  IF st.inserts > 0 THEN nxt
             ELSE ClaimLoopToInsert(i + 1, nxt, l, wiki_id, pref, oks)

\* the decision on an entity that has P244 claims, the first INSERT of the pass
\* (lines 415-418, 440-443 or 458-461) raises: no handler, the script ends there
RecDecideInsertCrash ==
    /\ pc = "records" /\ idx <= Len(to_check)
    /\ \E record \in MarcRecords, pref \in PrefLabels :
          LET l == to_check[idx]
              found == ScanFields(record, NoId, NoId)
              wiki_id == found.wiki_id
          IN  /\ wiki_id # NoId
              /\ Len(wikidata[wiki_id]) > 0
              /\ scanned' = Scanned(record, found.viaf_id, NoLinks, FALSE)
              /\ \E ok \in BOOLEAN :
                 LET p244 == wikidata[wiki_id]
                     oks == [i \in 1..Len(p244) |-> ok]
                     out == ClaimLoopToInsert(1, Outcome(p244, p244, <<>>, 0, <<>>, FALSE),
                                              l, wiki_id, pref, oks)
                 IN  /\ wikidata' = [wikidata EXCEPT ![wiki_id] = out.remote]
                     /\ okWrites' = [okWrites EXCEPT ![l.db_id] = @ + OkCount(out)]
                     /\ last' = LastRec("insert_fail", l, wiki_id, pref, p244, out)
    /\ Exit("insert")
    /\ UNCHANGED <<ids, deleted>>

\* a page loop that stops at the first page whose items all had a ledger row
EndPageStopsWhenSeen ==
    /\ pc = "records" /\ idx > Len(to_check)
    /\ log_writes' = log_writes \o PostWriteCheck(wikidata, lccns_to_check_wikidata_count)
    /\ lccns_to_check_wikidata_count' = <<>>
    /\ report' = build_report(log_writes')
    /\ IF use_page_number < LastPage /\ to_check # <<>>
       THEN use_page_number' = use_page_number + 1 /\ pc' = "page"
       ELSE use_page_number' = use_page_number /\ pc' = "prune"
    /\ to_check' = <<>>
    /\ idx' = 1
    /\ skipped' = {}
    /\ scan_ids' = <<>>
    /\ last' = NoLast
    /\ scanned' = NoScan
    /\ UNCHANGED <<run, now, ids, wikidata, okWrites, placed, delivered, deleted,
                   viaf_req, ended, lib_vars>>

\* after the records of the page: the post-write check and the report
EndPage ==
    /\ pc = "records" /\ idx > Len(to_check)
    /\ log_writes' = log_writes \o PostWriteCheck(wikidata, lccns_to_check_wikidata_count)
    /\ lccns_to_check_wikidata_count' = <<>>
    /\ report' = build_report(log_writes')
    /\ IF use_page_number < LastPage
       THEN use_page_number' = use_page_number + 1 /\ pc' = "page"
       ELSE use_page_number' = use_page_number /\ pc' = "prune"
    \* to_check is not read again before "to_check = []" of the next page
    /\ to_check' = <<>>
    /\ idx' = 1
    /\ skipped' = {}
    /\ scan_ids' = <<>>
    /\ last' = NoLast
    /\ scanned' = NoScan
    /\ UNCHANGED <<run, now, ids, wikidata, okWrites, placed, delivered, deleted,
                   viaf_req, ended, lib_vars>>

\* len(result) of SELECT * FROM ids WHERE timestamp < one_month_ago
OldRows(rows, t) == SelectSeq(rows, LAMBDA r : r.timestamp < one_month_ago(t))

\* prune(db) after the last page, then the script ends
Prune ==
    /\ pc = "prune"
    /\ deleted' = Len(OldRows(ids, now))
    /\ ids' = Pruned(ids, now)
    /\ Exit("done")
    /\ UNCHANGED <<wikidata, okWrites, last, scanned>>

Next ==
    \/ ConfigFail
    \/ StartRun
    \/ FetchPage
    \/ FeedCrash
    \/ SelectCrash
    \/ RecFetchFail
    \/ RecParseFail
    \/ RecPrefFail
    \/ RecGetFail
    \/ RecNoWiki
    \/ RecViafCrash
    \/ RecNoWikiInsertCrash
    \/ RecDecide
    \/ RecDecideInsertCrash
    \/ EndPage
    \/ Prune

Spec == Init /\ [][Next]_vars

\* the runs in which every external call returns: the credentials load, the login
\* succeeds, the feed answers JSON, sqlite and the VIAF request do not raise out
\* of the script; a step that can be taken is taken
NextReturns ==
    \/ StartRun
    \/ FetchPage
    \/ RecFetchFail
    \/ RecParseFail
    \/ RecPrefFail
    \/ RecGetFail
    \/ RecNoWiki
    \/ RecDecide
    \/ EndPage
    \/ Prune

SpecReturns == Init /\ [][NextReturns]_vars /\ WF_vars(NextReturns)

\* ------------------------------------------------------------ lib/llm.py
\* the longest list given to auto_route_prompt
MaxListLen == 2

\* str.split("\n"): the pieces between the newlines, one more than there are newlines
RECURSIVE Split(_)
Split(s) ==
    IF s = <<>> THEN << <<>> >>
    ELSE IF Head(s) = "\n" THEN << <<>> >> \o Split(Tail(s))
    ELSE LET rest == Split(Tail(s))
         IN  << <<Head(s)>> \o Head(rest) >> \o Tail(rest)

\* the most lines of content a fetched block has
MaxLines == 3

\* line i of a block: a text without newline, different for each i, in sorted order
Line(i) == [j \in 1..i |-> "x"]

\* the prompt of return_wikidata for n labels, descriptions, aliases and
\* statements: each one is a line followed by "\n"
RECURSIVE WikiPrompt(_)
WikiPrompt(n) ==
    IF n = 0 THEN <<>> ELSE WikiPrompt(n - 1) \o Line(n) \o <<"\n">>

\* '\n'.join of the first k lines, as parse_loc_xml returns its text
RECURSIVE JoinLines(_)
JoinLines(k) ==
    IF k = 0 THEN <<>>
    ELSE IF k = 1 THEN Line(1)
    ELSE JoinLines(k - 1) \o <<"\n">> \o Line(k)

\* build_lc_data: the record text of k lines, then "\n" and a line for each of the
\* w works
RECURSIVE LcText(_, _)
LcText(k, w) ==
    IF w = 0 THEN JoinLines(k) ELSE LcText(k, w - 1) \o <<"\n">> \o Line(w)

WikiTexts == {WikiPrompt(n) : n \in 0..MaxLines}

\* a record text without works, or works after an empty record text
LcTexts == {LcText(k, 0) : k \in 0..MaxLines} \cup {LcText(0, w) : w \in 1..MaxLines}

\* return_wikidata: a dict with the prompt text, or None after a failed request
WikiData(found, prompt) == [found |-> found, prompt |-> prompt]
WikiAnswers == {WikiData(FALSE, <<>>)} \cup {WikiData(TRUE, t) : t \in WikiTexts}

LccnIds == {n1, n2}

\* an argument of auto_route_prompt: a str or a list of str
Str(v) == [type |-> "str", v |-> <<v>>]
List(vs) == [type |-> "list", v |-> vs]
QidArgs == {Str(q) : q \in QIDs} \cup {List(vs) : vs \in SeqsUpTo(QIDs, MaxListLen)}
LccnArgs == {Str(l) : l \in LccnIds} \cup {List(vs) : vs \in SeqsUpTo(LccnIds, MaxListLen)}

\* the fixed parts of the prompts
HeaderOneToOne == <<"You are a helpful assistant comparing entities between two systems.">>
HeaderOneToMany == <<"You are a helpful assistant comparing entities between multiple sources.">>
SourceCompared == <<"This is the source entitiy and it's data you are comparing:">>
SourceToMatch == <<"This is the source entitiy and it's data you are trying to find the best match for:">>
PossibleMatch == <<"This is a possible match LCCN:">>
MsgWikiShort == <<"Not enough information in Wikidata prompt">>
MsgLccnShort == <<"Not enough information in LCCN prompt">>
MsgNotJson == <<"Failed to parse response as JSON">>

PromptDict(error, error_message, prompt) ==
    [error |-> error, error_message |-> error_message, prompt |-> prompt]

LccnBlock(lccn, lccn_prompt) == PossibleMatch \o lccn \o lccn_prompt

\* build_prompt_one_to_one, given the Wikidata text and the LCCN text it fetched
build_prompt_one_to_one(qid, lccn, wiki_prompt, lccn_prompt) ==
    LET p0 == PromptDict(FALSE, Empty, HeaderOneToOne \o SourceCompared \o <<qid>> \o wiki_prompt)
        p1 == IF Len(Split(wiki_prompt)) < 3
              THEN PromptDict(TRUE, MsgWikiShort, Empty) ELSE p0
        p2 == IF Len(Split(lccn_prompt)) < 3
              THEN PromptDict(TRUE, MsgLccnShort, Empty) ELSE p1
    IN  [p2 EXCEPT !.prompt = @ \o LccnBlock(lccn, lccn_prompt)]

\* "for lccn in lccns" of build_prompt_single_wiki_to_lccns, from position i on
RECURSIVE LccnLoop(_, _, _, _)
LccnLoop(ls, i, lc, p) ==
    IF i > Len(ls) THEN p
    ELSE IF Len(Split(lc[ls[i]])) < 3
         THEN PromptDict(TRUE, MsgLccnShort, Empty)
         ELSE LccnLoop(ls, i + 1, lc,
                       [p EXCEPT !.prompt = @ \o LccnBlock(ls[i], lc[ls[i]])])

\* build_prompt_single_wiki_to_lccns, given the Wikidata text and the LCCN texts
build_prompt_single_wiki_to_lccns(qid, ls, wiki_prompt, lc) ==
    LET p0 == PromptDict(FALSE, Empty, HeaderOneToMany \o SourceToMatch \o <<qid>> \o wiki_prompt)
        p1 == IF Len(Split(wiki_prompt)) < 3
              THEN PromptDict(TRUE, MsgWikiShort, Empty) ELSE p0
    IN  LccnLoop(ls, 1, lc, p1)

\* what the model call can do: answer JSON with a match, answer text that is not
\* JSON, or raise in the client
Answer(kind, match) == [kind |-> kind, match |-> match]
Answers ==
    {Answer("json", <<m>>) : m \in {"true", "false", "None"}}
    \cup {Answer("json", l) : l \in LccnIds}
    \cup {Answer("text", Empty), Answer("raise", Empty)}

\* no model call was made
NoAnswer == Answer("none", Empty)

\* the response schema: "match" is a BOOLEAN when match_is_boolean, else a STRING
FitsSchema(answer, match_is_boolean) ==
    answer.kind = "json" =>
        (match_is_boolean <=> answer.match \in {<<"true">>, <<"false">>})

\* what auto_route_prompt hands back: a parsed answer, an error dict, None, or an
\* exception that leaves it
Result(kind, value) == [kind |-> kind, value |-> value]
NoResult == Result("None", Empty)
Raised == Result("raised", Empty)

\* one call of send_prompt: what it was given as contents
Sent(is_dict, error, prompt, match_is_boolean) ==
    [is_dict |-> is_dict, error |-> error, prompt |-> prompt,
     match_is_boolean |-> match_is_boolean]

\* send_prompt taking a response that is not JSON for a negative verdict
send_promptGuess(answer) ==
    CASE answer.kind = "json" -> Result("match", answer.match)
      [] answer.kind = "text" -> Result("match", <<"false">>)
      [] OTHER -> Raised

\* send_prompt: the parsed response, or the error dict when it is not JSON
send_prompt(answer) ==
    CASE answer.kind = "json" -> Result("match", answer.match)
      [] answer.kind = "text" -> Result("error", MsgNotJson)
      [] OTHER -> Raised

Routed(calls, res) == [sent |-> calls, result |-> res]

\* the one-to-one branches: the model is asked only when the prompt has no error
OneToOne(qid, lccn, wd, lc, answer) ==
    IF ~wd.found THEN Routed(<<>>, Raised)
    ELSE LET prompt == build_prompt_one_to_one(qid, lccn, wd.prompt, lc[lccn])
         IN  IF prompt.error # TRUE
             THEN Routed(<<Sent(FALSE, FALSE, prompt.prompt, TRUE)>>, send_prompt(answer))
             ELSE Routed(<<>>, Result("error", prompt.error_message))

\* the one-to-many branch: the dict goes to send_prompt as it is
OneToMany(qid, ls, wd, lc, answer) ==
    IF ~wd.found THEN Routed(<<>>, Raised)
    ELSE LET prompt == build_prompt_single_wiki_to_lccns(qid, ls, wd.prompt, lc)
         IN  Routed(<<Sent(TRUE, prompt.error, prompt.prompt, FALSE)>>, send_prompt(answer))

auto_route_prompt(qs, ls, wd, lc, answer) ==
    IF qs.type = "str" /\ ls.type = "str"
    THEN OneToOne(qs.v[1], ls.v[1], wd, lc, answer)
    ELSE IF qs.type = "list" /\ ls.type = "list"
    THEN IF Len(qs.v) = 1 /\ Len(ls.v) = 1
         THEN OneToOne(qs.v[1], ls.v[1], wd, lc, answer)
         ELSE IF Len(qs.v) = 1 /\ Len(ls.v) > 1
         THEN OneToMany(qs.v[1], ls.v, wd, lc, answer)
         ELSE Routed(<<>>, NoResult)
    ELSE Routed(<<>>, NoResult)

\* a caller has entered auto_route_prompt with its arguments; script.py is not running
\* script.py has not been started
ScriptIdle ==
    /\ pc = "idle"
    /\ run = 0
    /\ now = 0
    /\ use_page_number = 0
    /\ to_check = <<>>
    /\ idx = 1
    /\ ids = <<>>
    /\ wikidata = [q \in QIDs |-> <<>>]
    /\ log_writes = <<>>
    /\ lccns_to_check_wikidata_count = <<>>
    /\ report = NoReport
    /\ last = NoLast
    /\ okWrites = [k \in Keys |-> 0]
    /\ skipped = {}
    /\ scan_ids = <<>>
    /\ placed = {}
    /\ delivered = 0
    /\ deleted = 0
    /\ viaf_req = FALSE
    /\ ended = "none"
    /\ scanned = NoScan

InitLlm ==
    /\ ScriptIdle
    /\ KeyIdle
    /\ XrefIdle
    /\ llm_pc = "called"
    /\ qids \in QidArgs
    /\ lccns \in LccnArgs
    /\ wiki_data \in WikiAnswers
    /\ lc_data \in [LccnIds -> LcTexts]
    /\ sent = <<>>
    /\ response = NoAnswer
    /\ result = NoResult

\* auto_route_prompt runs to its return (or to the exception that leaves it)
AutoRoutePrompt ==
    /\ llm_pc = "called"
    /\ \E answer \in Answers \cup {NoAnswer} :
          LET r == auto_route_prompt(qids, lccns, wiki_data, lc_data, answer)
          IN  /\ IF r.sent = <<>> THEN answer = NoAnswer
                 ELSE /\ answer # NoAnswer
                      /\ FitsSchema(answer, r.sent[1].match_is_boolean)
              /\ sent' = r.sent
              /\ response' = answer
              /\ result' = r.result
    /\ llm_pc' = "returned"
    /\ UNCHANGED <<script_vars, key_vars, xref_vars, qids, lccns, wiki_data, lc_data>>

NextLlm == AutoRoutePrompt

SpecLlm == InitLlm /\ [][NextLlm]_vars

\* ------------------------------------------------------------ the ledger key
\* the values a feed may put in an item: the last segment of object.id, and the
\* published and update strings, which the script takes as they come
FeedLccns == {n1, n2, n1 \o <<"-">> \o d1}
FeedDates == {d1, d2, d1 \o <<"-">> \o d1}
FeedItems == [lccn : FeedLccns, published : FeedDates, update : {d1, d2}]

\* two items of data['orderedItems'] reach the key construction
InitKey ==
    /\ ScriptIdle
    /\ LlmIdle
    /\ XrefIdle
    /\ recs \in FeedItems \X FeedItems
    /\ db_ids = <<>>

\* db_id = f"{lccn}-{date_pub}-{date_update}" for each of the two
BuildKeys ==
    /\ db_ids = <<>>
    /\ recs # <<>>
    /\ db_ids' = <<DbId(recs[1]), DbId(recs[2])>>
    /\ UNCHANGED <<script_vars, llm_vars, xref_vars, recs>>

NextKey == BuildKeys

SpecKey == InitKey /\ [][NextKey]_vars

\* ------------------------------------------------------------ lib/parse_reports.py
\* the most entries fetch_lccn_bot_reports returns
MaxReports == 2

\* a_violation of parse_wikidata_violations: what one line of a section names
Violation(qs, ls) == [qids |-> qs, lccns |-> ls, properties |-> <<>>]

ViolationLists ==
    { <<>>,
      <<Violation(<<"Q1">>, <<n1>>)>>,
      <<Violation(<<"Q2">>, <<>>)>>,
      <<Violation(<<>>, <<n2>>), Violation(<<"Q1", "Q2">>, <<>>)>> }

\* the text between "==" and "==" of a header line
SectionNames == {"Format", "Unique value", "violations"}

\* results['sections']: for each header met, {'violations': [...]}
SectionDicts ==
    UNION {[names -> {[violations |-> vl] : vl \in ViolationLists}] :
              names \in SUBSET SectionNames}

\* the dict parse_wikidata_violations returns
ParsedViolations(sections) == [metadata |-> <<>>, sections |-> sections]

\* an entry of fetch_lccn_bot_reports
ReportEntry(lccn, qid) == [date |-> d1, lccn |-> lccn, qid |-> qid, action |-> "ADD_P244"]
ReportEntries == {ReportEntry(l, q) : l \in LccnIds, q \in QIDs}

\* "k in d" for a dict d
HasKey(d, k) == k \in DOMAIN d

\* 'item' in violation and violation['item'] == qid
ItemIs(violation, qid) == HasKey(violation, "item") /\ violation.item = qid

\* a str is no element of a list of dicts
StrInDicts(qid, violations_list) == FALSE

\* the body of "for section_name, section_data in violations.items()" after the
\* metadata test: lccn_found and qid_found for one key of the dict
SectionFound(section_name, section_data, lccn, qid) ==
    LET none == [lccn_found |-> FALSE, qid_found |-> FALSE]
    IN  IF ~HasKey(section_data, "violations") THEN none
        ELSE LET vl == section_data["violations"]
             IN  CASE section_name \in {"Format", "Single value"} ->
                        [lccn_found |-> \E i \in 1..Len(vl) :
                                           /\ HasKey(vl[i], "lccn_ids")
                                           /\ lccn \in Range(vl[i].lccn_ids),
                         qid_found |-> \E i \in 1..Len(vl) : ItemIs(vl[i], qid)]
                   [] section_name = "Unique value" ->
                        [lccn_found |-> \E i \in 1..Len(vl) :
                                           /\ HasKey(vl[i], "lccn_id")
                                           /\ vl[i].lccn_id = lccn,
                         qid_found |-> \E i \in 1..Len(vl) :
                                           /\ HasKey(vl[i], "items")
                                           /\ qid \in Range(vl[i].items)]
                   [] section_name \in {"Conflicts with {{P|31}}", "Conflicts with {{P|1144}}",
                                        "Label in 'en' language"} ->
                        [lccn_found |-> FALSE, qid_found |-> StrInDicts(qid, vl)]
                   [] section_name \in {"Scope", "Allowed qualifiers", "Entity types"} ->
                        [lccn_found |-> FALSE,
                         qid_found |-> \E i \in 1..Len(vl) : ItemIs(vl[i], qid)]
                   [] OTHER -> none

\* the keys of the dict of parse_wikidata_violations, in insertion order
TopKeys == <<"metadata", "sections">>

\* found_in_sections of one report entry, from key k of the dict on
RECURSIVE FoundInSections(_, _, _)
FoundInSections(viol, entry, k) ==
    IF k > Len(TopKeys) THEN <<>>
    ELSE LET section_name == TopKeys[k]
             found == SectionFound(section_name, viol[section_name], entry.lccn, entry.qid)
         IN  (IF section_name # "metadata" /\ (found.lccn_found \/ found.qid_found)
              THEN <<[section |-> section_name, lccn_found |-> found.lccn_found,
                      qid_found |-> found.qid_found]>>
              ELSE <<>>)
             \o FoundInSections(viol, entry, k + 1)

\* "for entry in lccn_reports", from entry i on: the matches
RECURSIVE Matches(_, _, _)
Matches(viol, reports, i) ==
    IF i > Len(reports) THEN <<>>
    ELSE LET entry == reports[i]
             found_in_sections == FoundInSections(viol, entry, 1)
         IN  (IF found_in_sections # <<>>
              THEN <<[date |-> entry.date, lccn |-> entry.lccn, qid |-> entry.qid,
                      action |-> entry.action, found_in_sections |-> found_in_sections]>>
              ELSE <<>>)
             \o Matches(viol, reports, i + 1)

\* the summary returned, without its per-section and per-action counts
cross_reference_violations_with_reports(viol, reports) ==
    LET matches == Matches(viol, reports, 1)
    IN  [total_lccn_reports |-> Len(reports), total_matches |-> Len(matches),
         matches |-> matches]

\* the violations report was parsed and the bot reports were fetched
InitXref ==
    /\ ScriptIdle
    /\ LlmIdle
    /\ KeyIdle
    /\ xref_pc = "called"
    /\ violations \in {ParsedViolations(sections) : sections \in SectionDicts}
    /\ lccn_reports \in SeqsUpTo(ReportEntries, MaxReports)
    /\ summary = <<>>

\* the matching loop and the summary
CrossReference ==
    /\ xref_pc = "called"
    /\ summary' = cross_reference_violations_with_reports(violations, lccn_reports)
    /\ xref_pc' = "returned"
    /\ UNCHANGED <<script_vars, llm_vars, key_vars, violations, lccn_reports>>

NextXref == CrossReference

SpecXref == InitXref /\ [][NextXref]_vars

\* ------------------------------------------------------------ properties
\* what the latest pass of the record loop did
Decided == last.stage = "decided"
Completed == last.stage \in {"decided", "no_wiki"}
LastEvents == last.out.events
LastSteps == last.out.steps
WritesIssued == Len(SelectSeq(LastSteps, LAMBDA st : st.wrote))
WritesAccepted == Len(SelectSeq(LastSteps, LAMBDA st : st.ok))
EqIgnoreCase(a, b) == LowerStr(a) = LowerStr(b)
Min(S) == CHOOSE x \in S : \A y \in S : x <= y

\* C1: for one ledger key (lccn, published, updated) the bot performs at most one
\* accepted Wikidata write, over all pages and runs.
C1_AtMostOneWritePerKey ==
    \A k \in Keys : okWrites[k] <= 1

\* C2: a feed item whose key has a ledger row when its page is scanned is not put in
\* to_check, no pass of the record loop works on it during that page, and the rows
\* of its key stay as the scan found them.
C2_SeenIsSkipped ==
    /\ \A i \in 1..Len(to_check) : to_check[i].db_id \notin skipped
    /\ last.stage # "none" => last.db_id \notin skipped
    /\ pc = "records" =>
         \A k \in skipped :
            SelectSeq(ids, LAMBDA r : r.key = k) = SelectSeq(scan_ids, LAMBDA r : r.key = k)

\* a page whose scan skipped a key and whose record loop has ended
C2_Witness ==
    /\ pc = "records"
    /\ skipped # {}
    /\ idx > Len(to_check)

\* C3: when a record's processing completes with a mutation applied or with no
\* mutation needed (no NEED_REVIEW), a ledger row with its key exists before the
\* next record or page is processed.
C3_LedgerRowAfterSuccess ==
    (Completed /\ \A i \in 1..Len(LastEvents) : LastEvents[i].action # "NEED_REVIEW")
        => HasRow(ids, last.db_id)

\* C4: when the page loop of a run has ended, every record that was put in to_check
\* has a report event or a ledger row.
C4_EveryRecordAccounted ==
    pc = "prune" =>
        \A l \in placed :
            \/ HasRow(ids, l.db_id)
            \/ \E i \in 1..Len(log_writes) : log_writes[i].lccn = l.lccn

\* C5: a record that reaches the decision stage yields no event or exactly one, of
\* the five decision actions, and at most one write.
C5_ExactlyOneOutcome ==
    Completed =>
        /\ Len(LastEvents) <= 1
        /\ WritesIssued <= 1
        /\ \A i \in 1..Len(LastEvents) :
              LastEvents[i].action \in
                  {"ADD_P244", "NAMED_AS_ADDED", "NAMED_AS_CHANGE", "NEED_REVIEW",
                   "VIAF_SUGGESTION"}

\* the claims of the snapshot that equal the record's LCCN ignoring case
Matching == {i \in 1..Len(last.p244) : EqIgnoreCase(last.p244[i].value, last.lccn)}

\* the entity on Wikidata is the item as the last accepted write of the record sent
\* it, or the snapshot when no write was accepted
RemoteFollowsWrites ==
    /\ wikidata[last.wiki_id] = last.out.remote
    /\ LET accepted == {s \in 1..Len(LastSteps) : LastSteps[s].ok}
       IN  last.out.remote =
              IF accepted = {} THEN last.p244
              ELSE LastSteps[CHOOSE s \in accepted : \A t \in accepted : t <= s].after

\* the passes of the claim loop follow each other on one local item
StepsChain ==
    Len(last.p244) > 0 =>
        /\ Len(LastSteps) = Len(last.p244)
        /\ \A s \in 1..Len(LastSteps) :
              /\ LastSteps[s].before = (IF s = 1 THEN last.p244 ELSE LastSteps[s - 1].after)
              /\ LastSteps[s].events = <<>> \/ LastSteps[s].wrote
        /\ last.out.item = LastSteps[Len(LastSteps)].after

C8_NoOpWhenLabelPresent ==
    (Decided /\ Len(last.p244) > 0) =>
        \A s \in 1..Len(LastSteps) :
            LET st == LastSteps[s]
                c == st.before[s]
            IN  (EqIgnoreCase(c.value, last.lccn)
                 /\ \E j \in 1..Len(c.P1810) : c.P1810[j] = last.pref)
                => (st.after = st.before /\ ~st.wrote /\ st.events = <<>>)

\* the entries of claim c that differ from the label once stripped
Differing(c) == {j \in 1..Len(c.P1810) : Strip(c.P1810[j]) # last.pref}

C10_QualifierAdded ==
    (Decided /\ Len(last.p244) > 0) =>
        /\ StepsChain
        /\ RemoteFollowsWrites
        /\ \A s \in 1..Len(LastSteps) :
              LET st == LastSteps[s]
                  c == st.before[s]
                  a == st.after[s]
              IN  (EqIgnoreCase(c.value, last.lccn) /\ Len(c.P1810) = 0) =>
                     /\ Len(st.after) = Len(st.before)
                     /\ \A i \in 1..Len(st.before) : i # s => st.after[i] = st.before[i]
                     /\ a.value = c.value
                     /\ a.P1810 = <<last.pref>>
                     /\ st.wrote
                     /\ st.events =
                          IF st.ok
                          THEN <<Event(last.lccn, <<last.wiki_id>>, "NAMED_AS_ADDED",
                                       Empty, last.pref)>>
                          ELSE <<Event(last.lccn, <<last.wiki_id>>, "NEED_REVIEW",
                                       Empty, MsgAddError)>>

\* a claim without P1810, standing beside another claim, got the label, accepted
C10_Witness ==
    /\ Decided
    /\ Len(last.p244) > 0
    /\ \E s \in 1..Len(LastSteps) :
          /\ LastSteps[s].ci = s
          /\ LastSteps[s].before[s].P1810 = <<>>
          /\ LastSteps[s].ok
    /\ \E i \in 1..Len(wikidata[last.wiki_id]) :
          /\ EqIgnoreCase(wikidata[last.wiki_id][i].value, last.lccn)
          /\ wikidata[last.wiki_id][i].P1810 = <<last.pref>>
    /\ \E i \in 1..Len(LastEvents) : LastEvents[i].action = "NAMED_AS_ADDED"

\* C10 as stated: if the claim equal to the LCCN has no P1810 qualifier, one P1810
\* qualifier equal to the label is added to it, one write is issued and one
\* NAMED_AS_ADDED event with new = the label is logged; nothing else changes.
C10_AsStated ==
    Decided =>
        \A i \in Matching :
            last.p244[i].P1810 = <<>> =>
                /\ last.out.item = [last.p244 EXCEPT ![i].P1810 = <<last.pref>>]
                /\ WritesIssued = 1
                /\ LastEvents =
                      <<Event(last.lccn, <<last.wiki_id>>, "NAMED_AS_ADDED", Empty, last.pref)>>

\* the Wikidata IDs in the identifier-bearing fields (024, 670$u) of a record
RECURSIVE Candidates(_)
Candidates(fields) ==
    IF fields = <<>> THEN <<>>
    ELSE (IF Head(fields).tag = "024" \/ (Head(fields).tag = "670" /\ Head(fields).u)
          THEN Head(fields).wd ELSE <<>>)
         \o Candidates(Tail(fields))

\* C11: when the 024 and 670$u fields of a record yield two or more Wikidata IDs, the
\* pass over that record issues no Wikidata write and logs an event whose qid lists
\* every one of them.
C11_AmbiguousIsFlagged ==
    (last.stage \in {"decided", "insert_fail"} /\ Len(Candidates(scanned.record)) >= 2) =>
        /\ WritesIssued = 0
        /\ \E e \in Range(LastEvents) :
              Range(Candidates(scanned.record)) \subseteq Range(e.qid)

\* the pass found the VIAF ID, the links and the entity it needs for a suggestion
ViafResolved ==
    /\ scanned.viaf_id # NoId
    /\ scanned.viaf_links.WKP # <<>>
    /\ scanned.viaf_links.LC
    /\ scanned.got

AddedInPage ==
    IF Decided /\ \E e \in Range(LastEvents) : e.action = "ADD_P244"
    THEN {last.lccn} ELSE {}

\* C13: the step that ends a page's record loop logs MULTI_LCCN_IN_WIKI for an LCCN
\* added in that page if and only if more than one entity carries it as P244 value.
C13_PostWriteCheck ==
    [][(pc = "records" /\ pc' \in {"page", "prune"}) =>
          \A lccn \in AddedInPage :
              (\E i \in (Len(log_writes) + 1)..Len(log_writes') :
                    /\ log_writes'[i].action = "MULTI_LCCN_IN_WIKI"
                    /\ log_writes'[i].lccn = lccn)
              <=> Len(Sparql(wikidata, lccn)) > 1]_vars

\* C14: prune removes exactly the rows whose timestamp is more than 2,592,000 seconds
\* before the current time, keeps every other row as it was and in its place, and
\* the count it prints is the number of rows removed.
C14_PruneRemovesOld ==
    [][(pc = "prune" /\ pc' = "idle") =>
          /\ ids' = SelectSeq(ids, LAMBDA r : now - r.timestamp <= 2592000)
          /\ deleted' = Len(ids) - Len(ids')]_vars

\* a prune that removed a row and kept another
C14_Witness ==
    /\ pc = "idle"
    /\ ended = "done"
    /\ deleted >= 1
    /\ ids # <<>>

\* C15: a failing ledger operation (the seen-check SELECT or an INSERT) does not end
\* the run, and the record whose INSERT failed got no Wikidata write.
C15_LedgerFailureContinues ==
    /\ ended \notin {"select", "insert"}
    /\ last.stage = "insert_fail" => (pc = "records" /\ WritesIssued = 0)

\* C16: a failed read of the feed page does not end the run, and a record whose MARC
\* download, label request or entity fetch failed has a NEED_REVIEW event in the
\* run's log.
C16_ReadFailureIsFlagged ==
    /\ ended # "feed"
    /\ last.stage \in {"fetch_fail", "pref_fail", "get_fail"} =>
          \E e \in Range(log_writes) : e.action = "NEED_REVIEW" /\ e.lccn = last.lccn

\* C17: a record whose MARC payload cannot be parsed gets no Wikidata write and has
\* its key in the ledger after the pass.
C17_ParseFailureIsRecorded ==
    last.stage = "parse_fail" =>
        /\ WritesIssued = 0
        /\ HasRow(ids, last.db_id)

\* the NEED_REVIEW text of the write that a pass of kind k issues
ErrorOf(kind) ==
    CASE kind = "change" -> MsgChangeError
      [] kind = "add" -> MsgAddError
      [] kind = "addclaim" -> MsgP244Error
      [] OTHER -> Empty

\* C18: a write that Wikidata rejects logs exactly one event for the attempt, a
\* NEED_REVIEW with the record's LCCN and QID, and no success event; the entity
\* stays as it was before the attempt; an accepted write logs one success event;
\* the events are appended to the run's log and the run goes on.
C18_RejectedWriteIsFlagged ==
    Decided =>
        /\ \A s \in 1..Len(LastSteps) :
              LET st == LastSteps[s]
              IN  /\ (st.wrote /\ ~st.ok) =>
                        st.events = <<Event(last.lccn, <<last.wiki_id>>, "NEED_REVIEW",
                                            Empty, ErrorOf(st.kind))>>
                  /\ (st.wrote /\ st.ok) =>
                        /\ Len(st.events) = 1
                        /\ st.events[1].action \in
                              {"ADD_P244", "NAMED_AS_ADDED", "NAMED_AS_CHANGE"}
                  /\ ~st.wrote => st.events = <<>>
        /\ Len(SelectSeq(LastEvents,
                  LAMBDA e : e.action \in {"ADD_P244", "NAMED_AS_ADDED", "NAMED_AS_CHANGE"}))
              = WritesAccepted
        /\ Len(SelectSeq(LastEvents,
                  LAMBDA e : e.action = "NEED_REVIEW" /\ e.new # MsgMismatch))
              = WritesIssued - WritesAccepted
        /\ RemoteFollowsWrites
        /\ Len(log_writes) >= Len(LastEvents)
        /\ SubSeq(log_writes, Len(log_writes) - Len(LastEvents) + 1, Len(log_writes))
              = LastEvents
        /\ pc = "records"
        /\ ended = "running"

\* a pass with one rejected and one accepted write
C18_Witness ==
    /\ Decided
    /\ WritesIssued = 2
    /\ WritesAccepted = 1
    /\ \E e \in Range(LastEvents) : e.action = "NEED_REVIEW"
    /\ pc = "records"

\* C19: a run that ends on an error ends on a configuration error (creds.json or
\* the login), at startup, with the ledger, the feed and Wikidata untouched; no
\* other error ends a run.
C19_OnlyConfigEndsRun ==
    [][(ended' # ended /\ ended' \notin {"running", "done"}) =>
          /\ ended' = "config"
          /\ pc = "idle"
          /\ UNCHANGED <<ids, wikidata, delivered, okWrites>>]_vars

\* the branch of auto_route_prompt that the arguments select
Route ==
    CASE qids.type = "str" /\ lccns.type = "str" -> "strings"
      [] qids.type = "list" /\ lccns.type = "list" /\ Len(qids.v) = 1 /\ Len(lccns.v) = 1
            -> "singletons"
      [] qids.type = "list" /\ lccns.type = "list" /\ Len(qids.v) = 1 /\ Len(lccns.v) > 1
            -> "one_to_many"
      [] OTHER -> "none"

\* the Wikidata block or the block of one of the LCCNs has fewer than 3 lines, a
\* line being a piece of split("\n") as in the code
ShortBlock ==
    \/ Len(Split(wiki_data.prompt)) < 3
    \/ \E i \in 1..Len(lccns.v) : Len(Split(lc_data[lccns.v[i]])) < 3

\* C20: on each of the three routes of auto_route_prompt, when the Wikidata block
\* or an LCCN block has fewer than 3 lines, send_prompt is not called and the value
\* returned is an error result.
C20_ShortBlockNeverSent ==
    (llm_pc = "returned" /\ Route # "none" /\ wiki_data.found /\ ShortBlock) =>
        /\ sent = <<>>
        /\ result.kind = "error"

\* C21: when the response text of the model call is not valid JSON, the value that
\* send_prompt returns is the error dict "Failed to parse response as JSON", which
\* has no match.
C21_ParseFailureIsError ==
    (llm_pc = "returned" /\ sent # <<>> /\ response.kind = "text") =>
        /\ result.kind = "error"
        /\ result.value = MsgNotJson

\* a one-to-one model call was answered by text that is not JSON
C21_Witness ==
    /\ llm_pc = "returned"
    /\ Len(sent) = 1
    /\ sent[1].match_is_boolean
    /\ response.kind = "text"
    /\ result.kind = "error"

\* C22: whatever the arguments, a call of auto_route_prompt that returns hands back
\* a verdict (a boolean on the one-to-one routes, a candidate on the one-to-many
\* route) or an error result, never None.
C22_AlwaysVerdictOrError ==
    (llm_pc = "returned" /\ result.kind # "raised") =>
        /\ result.kind \in {"match", "error"}
        /\ result.kind = "match" =>
              (Route \in {"strings", "singletons"}
                  <=> result.value \in {<<"true">>, <<"false">>})

\* C23: the ledger row of a record is inserted only when its outcome is final: a
\* pass that a failing VIAF lookup ended leaves no row for the record, and within
\* a pass no write and no event follows a step that inserted the row.
C23_InsertAfterOutcome ==
    /\ last.stage = "viaf_crash" => ~HasRow(ids, last.db_id)
    /\ Decided =>
          \A s \in 1..Len(LastSteps), t \in 1..Len(LastSteps) :
              (s < t /\ LastSteps[s].inserts > 0) =>
                  (~LastSteps[t].wrote /\ LastSteps[t].events = <<>>)

\* the pass that would process the latest record once more, against the entity as
\* the latest pass left it on Wikidata, every write being accepted
Again ==
    LET p244 == last.out.remote
    IN  Decide(p244, [lccn |-> last.lccn, db_id |-> last.db_id], last.wiki_id, last.pref,
               [i \in 1..(IF Len(p244) = 0 THEN 1 ELSE Len(p244)) |-> TRUE])

\* C24: after a pass whose writes were all accepted, processing the same record
\* (same LCCN, same preferred label) again against the entity it left issues no
\* write.
C24_SecondPassWritesNothing ==
    (Decided /\ WritesIssued >= 1 /\ WritesAccepted = WritesIssued) =>
        \A s \in 1..Len(Again.steps) : ~Again.steps[s].wrote

\* C25: two feed items get the same ledger key exactly when they agree in LCCN,
\* published timestamp and update timestamp.
C25_KeyInjective ==
    db_ids # <<>> => (db_ids[1] = db_ids[2] <=> recs[1] = recs[2])

\* the lines of content of a block: the pieces between newlines that are not empty
ContentLines(text) == Len(SelectSeq(Split(text), LAMBDA piece : piece # <<>>))

\* C26: on the one-to-one routes the insufficient-data error is returned exactly
\* when the Wikidata block or the LCCN block has fewer than 3 lines of content.
C26_ErrorIffFewLines ==
    (llm_pc = "returned" /\ Route \in {"strings", "singletons"} /\ wiki_data.found) =>
        ((result.kind = "error" /\ result.value \in {MsgWikiShort, MsgLccnShort})
            <=> (\/ ContentLines(wiki_data.prompt) < 3
                 \/ ContentLines(lc_data[lccns.v[1]]) < 3))

\* how often e occurs in a sequence, and how many of its entries have action a
Occurs(seq, e) == Cardinality({i \in 1..Len(seq) : seq[i] = e})
WithAction(seq, a) == Cardinality({i \in 1..Len(seq) : seq[i].action = a})

\* C27: the report written at the end of a page is built from all the events of
\* the run so far: for each of the six actions the count in its message is the
\* number of events of that action logged so far and the number of its logDetail
\* entries of that action, each logged event has exactly one logDetail, and no
\* count is lower than in the report of the page before.
C27_ReportIsCumulative ==
    [][(pc = "records" /\ pc' \in {"page", "prune"}) =>
          /\ \A a \in Range(available_actions) :
                /\ report'.msg[a] = WithAction(log_writes', a)
                /\ report'.msg[a] = WithAction(report'.logDetails, a)
                /\ report'.msg[a] >= report.msg[a]
          /\ Len(report'.logDetails) = Len(log_writes')
          /\ \A e \in Range(log_writes') \cup Range(report'.logDetails) :
                Occurs(report'.logDetails, e) = Occurs(log_writes', e)
          /\ \A i \in 1..Len(log_writes) : log_writes'[i] = log_writes[i]]_vars

\* the report of the last page counts two events of one action and one of another
C27_Witness ==
    /\ pc = "prune"
    /\ \E a \in Range(available_actions), b \in Range(available_actions) :
          a # b /\ report.msg[a] >= 2 /\ report.msg[b] >= 1
    /\ Len(report.logDetails) = Len(log_writes)

\* the QID or the LCCN of a report entry occurs in a violation of some section
Occurring(entry) ==
    \E name \in DOMAIN violations.sections :
        \E i \in 1..Len(violations.sections[name].violations) :
            LET v == violations.sections[name].violations[i]
            IN  entry.qid \in Range(v.qids) \/ entry.lccn \in Range(v.lccns)

\* C28: every bot report entry whose QID or LCCN occurs in a violation of some
\* section is in matches, and total_matches is the number of those entries.
C28_OccurringIsMatched ==
    xref_pc = "returned" =>
        /\ \A i \in 1..Len(lccn_reports) :
              Occurring(lccn_reports[i]) =>
                  \E m \in Range(summary.matches) :
                      m.lccn = lccn_reports[i].lccn /\ m.qid = lccn_reports[i].qid
        /\ summary.total_matches =
              Cardinality({i \in 1..Len(lccn_reports) : Occurring(lccn_reports[i])})

\* C29: the ledger never holds two rows with the same key.
C29_OneRowPerKey ==
    \A i \in 1..Len(ids), j \in 1..Len(ids) : ids[i].key = ids[j].key => i = j

\* rows is the beginning of more
IsPrefix(rows, more) == Len(rows) <= Len(more) /\ SubSeq(more, 1, Len(rows)) = rows

====
